---------------------------- MODULE Spec2Model ----------------------------
(***************************************************************************)
(* A model of health-monitor: the event store (health_monitor/db.py), the  *)
(* command handlers and the voice pipeline (health_monitor/cli.py,         *)
(* health_monitor/voice.py) and the GarminDB reconciliation                *)
(* (scripts/garmin_sync.py).                                               *)
(*                                                                         *)
(* Text is a sequence of lexemes.  Whitespace, punctuation and the         *)
(* backtick (written ^) are one character each; "7" is a JSON number; a member lexeme  *)
(* ("f", "g", "m", "x", "n") stands for the key/value pairs of one JSON    *)
(* object (see MemberTag); "p" is prose that is not JSON.                  *)
(***************************************************************************)
EXTENDS Integers, Sequences, FiniteSets, TLC

\* Python None / SQL NULL
NULL == "NULL"
\* None where a timestamp is expected (timestamps are clock readings >= 0)
NoTime == -1

(***************************************************************************)
(* Bounds of the model                                                     *)
(***************************************************************************)
\* rows the events table may grow to
MaxEvents == 2
\* the wall clock runs over 0..MaxClock
MaxClock == 1
\* audio blocks the input stream delivers in one recording
MaxFrames == 2
\* frames in one delivered block (PortAudio chooses the block size)
BlockFrames == 256
\* the calendar days 1..MaxDay; the last one is today
MaxDay == 2

(***************************************************************************)
(* Program constants                                                       *)
(***************************************************************************)
TAGS == {"food", "activity", "symptom", "mood", "stress", "sleep", "other"}

\* record_audio's default sample_rate, in frames per second
sample_rate == 16000

\* tags a caller may hand to insert_event: a member of TAGS, one that is
\* not, and None
CallerTags == {"food", "meal", NULL}

(***************************************************************************)
(* Text helpers: str.strip, str.startswith, str.splitlines, str.join       *)
(***************************************************************************)
\* "L" is U+2028 LINE SEPARATOR: whitespace to str.strip and a line boundary
\* to str.splitlines, but to JSON an ordinary character
WS == {" ", "\n", "L"}

RECURSIVE LStrip(_)
LStrip(s) == IF s # <<>> /\ Head(s) \in WS THEN LStrip(Tail(s)) ELSE s

RECURSIVE RStrip(_)
RStrip(s) ==
    IF s # <<>> /\ s[Len(s)] \in WS THEN RStrip(SubSeq(s, 1, Len(s) - 1)) ELSE s

Strip(s) == RStrip(LStrip(s))

StartsWith(s, p) == Len(s) >= Len(p) /\ SubSeq(s, 1, Len(p)) = p

\* "^" is the backtick: three of them open or close a code fence
FENCE == <<"^", "^", "^">>

\* the characters str.splitlines splits at
LineBreaks == {"\n", "L"}

\* the index of the first line break of s, 0 when there is none
FirstBreak(s) ==
    IF \E i \in 1..Len(s) : s[i] \in LineBreaks
    THEN CHOOSE i \in 1..Len(s) :
            s[i] \in LineBreaks /\ \A j \in 1..(i - 1) : s[j] \notin LineBreaks
    ELSE 0

RECURSIVE SplitLines(_)
SplitLines(s) ==
    IF s = <<>> THEN <<>>
    ELSE LET i == FirstBreak(s)
         IN  IF i = 0 THEN <<s>>
             ELSE <<SubSeq(s, 1, i - 1)>> \o SplitLines(SubSeq(s, i + 1, Len(s)))

RECURSIVE JoinLines(_)
JoinLines(ls) ==
    IF ls = <<>> THEN <<>>
    ELSE IF Len(ls) = 1 THEN ls[1]
    ELSE ls[1] \o <<"\n">> \o JoinLines(Tail(ls))

(***************************************************************************)
(* json.loads over lexemes                                                 *)
(***************************************************************************)
Members == {"f", "g", "m", "x", "n"}

\* ev.get("tag", "other") of an object: "" is the object with no keys
MemberTag(m) ==
    CASE m = "f" -> "food"
      [] m = "g" -> "food"
      [] m = "m" -> "mood"
      [] m = "x" -> "meal"
      [] m = "n" -> NULL
      [] OTHER   -> "other"

MemberCategory(m) ==
    CASE m = "f" -> "regular"
      [] m = "g" -> "regular"
      [] OTHER   -> NULL

MemberValue(m) ==
    CASE m = "f" -> "avocado"
      [] m = "g" -> "egg"
      [] m = "m" -> "relaxed"
      [] m = "x" -> "soup"
      [] m = "n" -> "7"
      [] OTHER   -> NULL

JValue(k, its, m) == [kind |-> k, items |-> its, member |-> m, text |-> <<>>]
JArray(its) == JValue("array", its, "")
JObject(m) == JValue("object", <<>>, m)
JNumber == JValue("number", <<>>, "")
JNone == JValue("none", <<>>, "")
\* a string, its characters in text
JString(t) == [kind |-> "string", items |-> <<>>, member |-> "", text |-> t]

\* the whitespace of JSON
JsonWS == {" ", "\n"}

RECURSIVE SkipWS(_)
SkipWS(s) == IF s # <<>> /\ Head(s) \in JsonWS THEN SkipWS(Tail(s)) ELSE s

\* the index of the quote that closes a string whose body starts s, 0 when
\* s has none
ClosingQuote(s) ==
    IF \E i \in 1..Len(s) : s[i] = "q"
    THEN CHOOSE i \in 1..Len(s) : s[i] = "q" /\ \A j \in 1..(i - 1) : s[j] # "q"
    ELSE 0

ParseFail == [ok |-> FALSE, val |-> JNone, rest |-> <<>>]
ParseOk(v, r) == [ok |-> TRUE, val |-> v, rest |-> r]

RECURSIVE ParseValue(_)
RECURSIVE ParseElems(_, _)
ParseValue(s0) ==
    LET s == SkipWS(s0)
    IN  IF s = <<>> THEN ParseFail
        ELSE IF Head(s) = "7" THEN ParseOk(JNumber, Tail(s))
        ELSE IF Head(s) = "q" THEN
            \* a string: "q" is the double quote; a raw line feed inside is
            \* an invalid control character
            LET n == ClosingQuote(Tail(s))
            IN  IF n = 0 \/ \E i \in 1..(n - 1) : Tail(s)[i] = "\n" THEN ParseFail
                ELSE ParseOk(JString(SubSeq(Tail(s), 1, n - 1)),
                             SubSeq(Tail(s), n + 1, Len(Tail(s))))
        ELSE IF Head(s) = "{" THEN
            LET t == SkipWS(Tail(s))
            IN  IF t # <<>> /\ Head(t) = "}" THEN ParseOk(JObject(""), Tail(t))
                ELSE IF t # <<>> /\ Head(t) \in Members
                        /\ SkipWS(Tail(t)) # <<>> /\ Head(SkipWS(Tail(t))) = "}"
                     THEN ParseOk(JObject(Head(t)), Tail(SkipWS(Tail(t))))
                     ELSE ParseFail
        ELSE IF Head(s) = "[" THEN
            LET t == SkipWS(Tail(s))
            IN  IF t # <<>> /\ Head(t) = "]" THEN ParseOk(JArray(<<>>), Tail(t))
                ELSE ParseElems(t, <<>>)
        ELSE ParseFail

ParseElems(s, acc) ==
    LET r == ParseValue(s)
    IN  IF ~r.ok THEN ParseFail
        ELSE LET t == SkipWS(r.rest)
             IN  IF t = <<>> THEN ParseFail
                 ELSE IF Head(t) = "]" THEN ParseOk(JArray(Append(acc, r.val)), Tail(t))
                 ELSE IF Head(t) = "," THEN ParseElems(Tail(t), Append(acc, r.val))
                 ELSE ParseFail

\* json.loads: the value, or JSONDecodeError
JsonLoads(s) ==
    LET r == ParseValue(s)
    IN  IF r.ok /\ SkipWS(r.rest) = <<>>
        THEN [status |-> "ok", val |-> r.val]
        ELSE [status |-> "JSONDecodeError", val |-> JNone]

(***************************************************************************)
(* voice.parse_events, from the text of the reply on                       *)
(***************************************************************************)
\* the fence stripping of lines 120-122
StripFence(raw) ==
    IF StartsWith(raw, FENCE)
    THEN LET lines == SplitLines(raw)
         IN  JoinLines(IF Strip(lines[Len(lines)]) = FENCE
                       THEN SubSeq(lines, 2, Len(lines) - 1)
                       ELSE Tail(lines))
    ELSE raw

parse_events(reply) ==
    LET raw == StripFence(Strip(reply))
    IN  IF raw = <<>> THEN [status |-> "ok", val |-> JArray(<<>>)]
        ELSE JsonLoads(raw)


(***************************************************************************)
(* State                                                                   *)
(***************************************************************************)
VARIABLES
    events,      \* the events table, rows in rowid order
    clock,       \* the wall clock (datetime.now)
    pc,          \* where the running command (the controlling thread) is
    rows,        \* what query_events returned to the running list command
    qargs,       \* the arguments of that query
    stop,        \* threading.Event of voice(): set or not
    wpc,         \* where the capture worker (rec_thread) is
    cbpc,        \* where the audio callback is
    delivered,   \* audio blocks the stream has handed to the callback
    chunks,      \* record_audio's chunks list
    tmpfile,     \* the temporary WAV file
    holder,      \* audio_holder
    transcript,  \* the transcript of the run
    parsed,      \* what parse_events returned
    idx,         \* the insert loop's position in the candidates
    events0,     \* history: the events table when the command started
    hist,        \* history: the stages of the running voice command, in order
    reply,       \* the reply text handed to parse_events (pure-function check)
    outcome,     \* what parse_events made of it
    tstr,        \* the clock-time string handed to _time_str_to_seconds
    tsecs,       \* what _time_str_to_seconds returned for it
    gsum,        \* garmin_summary.db: missing or readable; its days_summary table
    gmain,       \* garmin.db: missing, unreadable or readable; its sleep table
    garmin_daily,\* health.db: the committed garmin_daily table
    txn,         \* garmin_daily as the open transaction of sync sees it
    spc,         \* where sync() is
    slocals,     \* sync's locals: since, now, summary_rows, sleep_by_day, i
    sresult,     \* what sync() returned or raised
    daily0,      \* history: garmin_daily when the running sync started
    lastrun      \* history: the sync that returned last, the sources unchanged since

storeVars == <<events, clock>>
cmdVars == <<pc, rows, qargs, events0, hist>>
captureVars == <<stop, wpc, cbpc, delivered, chunks, tmpfile, holder>>
voiceVars == <<transcript, parsed, idx>>
parseVars == <<reply, outcome, tstr, tsecs>>
srcVars == <<gsum, gmain>>
syncVars == <<garmin_daily, txn, spc, slocals, sresult, daily0, lastrun>>
vars == <<storeVars, cmdVars, captureVars, voiceVars, parseVars, srcVars, syncVars>>

(***************************************************************************)
(* db.py: the events table                                                 *)
(***************************************************************************)
\* insert_event as INSERT OR REPLACE over a key of (timestamp, tag)
insert_event_Replace(table, now, tag, category, value, notes, source, timestamp) ==
    LET ts == IF timestamp = NoTime THEN now ELSE timestamp
        new == [id |-> Len(table) + 1, timestamp |-> ts, tag |-> tag,
                category |-> category, value |-> value, notes |-> notes,
                source |-> source]
        same == {i \in 1..Len(table) : table[i].timestamp = ts /\ table[i].tag = tag}
    IN  IF tag = NULL \/ source = NULL
        THEN [status |-> "IntegrityError", table |-> table, id |-> 0]
        ELSE IF same # {}
        THEN [status |-> "ok",
              table  |-> [i \in 1..Len(table) |->
                            IF i \in same THEN [new EXCEPT !.id = i] ELSE table[i]],
              id     |-> CHOOSE i \in same : TRUE]
        ELSE [status |-> "ok", table |-> Append(table, new), id |-> Len(table) + 1]

\* insert_event that numbers every row 1 instead of leaving the id to the store
insert_event_FixedId(table, now, tag, category, value, notes, source, timestamp) ==
    LET ts == IF timestamp = NoTime THEN now ELSE timestamp
    IN  IF tag = NULL \/ source = NULL
        THEN [status |-> "IntegrityError", table |-> table, id |-> 0]
        ELSE [status |-> "ok",
              table  |-> Append(table,
                            [id |-> 1, timestamp |-> ts, tag |-> tag,
                             category |-> category, value |-> value,
                             notes |-> notes, source |-> source]),
              id     |-> 1]

\* The INSERT of insert_event.  The schema holds no constraint on tag other
\* than NOT NULL; the id is AUTOINCREMENT.  No row is ever deleted, so the
\* next id is one more than the number of rows.
insert_event(table, now, tag, category, value, notes, source, timestamp) ==
    LET ts == IF timestamp = NoTime THEN now ELSE timestamp
    IN  IF tag = NULL \/ source = NULL
        THEN [status |-> "IntegrityError", table |-> table, id |-> 0]
        ELSE [status |-> "ok",
              table  |-> Append(table,
                            [id |-> Len(table) + 1, timestamp |-> ts, tag |-> tag,
                             category |-> category, value |-> value,
                             notes |-> notes, source |-> source]),
              id     |-> Len(table) + 1]

\* WHERE clause of query_events: "if tag:" and "if since:" skip None, and
\* "if tag:" skips the empty string as well
Matches(e, tag, since) ==
    /\ (tag \notin {NULL, ""} => e.tag = tag)
    /\ (since # NoTime => e.timestamp >= since)

\* LIMIT ?: a negative limit is no limit in SQLite
Truncate(seq, limit) ==
    IF limit < 0 \/ limit >= Len(seq) THEN seq ELSE SubSeq(seq, 1, limit)

\* ORDER BY timestamp DESC names no second key: among rows of one timestamp
\* the order is the query planner's choice.
query_events(table, tag, since, limit) ==
    LET M == {i \in 1..Len(table) : Matches(table[i], tag, since)}
        n == Cardinality(M)
        Orders == {f \in [1..n -> M] :
                     /\ \A i, j \in 1..n : i # j => f[i] # f[j]
                     /\ \A i, j \in 1..n :
                          i < j => table[f[i]].timestamp >= table[f[j]].timestamp}
    IN  {Truncate([i \in 1..n |-> table[f[i]]], limit) : f \in Orders}


(***************************************************************************)
(* voice.record_audio: the audio the worker materializes                   *)
(***************************************************************************)
\* a block of the stream: its number, its frames, and (history) whether the
\* stop signal was set when the stream delivered it
NoBlock == [no |-> 0, frames |-> 0, late |-> FALSE]
NoFile == [exists |-> FALSE, frames |-> 0, blocks |-> <<>>]

RECURSIVE TotalFrames(_)
TotalFrames(bs) == IF bs = <<>> THEN 0 ELSE Head(bs).frames + TotalFrames(Tail(bs))

\* Audio without the fallback: np.concatenate of no chunks taken as no samples
Audio_NoSilence(cs) == [exists |-> TRUE, frames |-> TotalFrames(cs), blocks |-> cs]

\* np.concatenate(chunks) if chunks else np.zeros((sample_rate,))
Audio(cs) ==
    IF cs # <<>>
    THEN [exists |-> TRUE, frames |-> TotalFrames(cs), blocks |-> cs]
    ELSE [exists |-> TRUE, frames |-> sample_rate, blocks |-> <<>>]

(***************************************************************************)
(* Replies of the language model offered to the voice command              *)
(***************************************************************************)
ReplyTwoFoods == <<"[", "{", "f", "}", ",", "{", "g", "}", "]">>
ReplyFencedMood == <<"^", "^", "^", "\n", "[", "{", "m", "}", "]", "\n", "^", "^", "^">>
ReplyBadTag == <<"[", "{", "x", "}", "]">>
ReplyNullTag == <<"[", "{", "f", "}", ",", "{", "n", "}", "]">>
ReplyNoTag == <<"[", "{", "}", "]">>
ReplyEmptyArray == <<"[", "]">>
ReplyObject == <<"{", "f", "}">>
ReplyNumbers == <<"[", "7", "]">>
ReplyProse == <<"p", " ", "[", "]">>

VoiceReplies ==
    {ReplyTwoFoods, ReplyFencedMood, ReplyBadTag, ReplyNullTag, ReplyNoTag,
     ReplyEmptyArray, ReplyObject, ReplyNumbers, ReplyProse, <<>>}

NotParsed == [status |-> "none", val |-> JNone]
\* _time_str_to_seconds was not called yet
NotConverted == [done |-> FALSE, val |-> 0]
\* sync() is not running: no locals, no result
NoLocals == [since |-> 0, now |-> 0, summary_rows |-> <<>>, sleep_by_day |-> {},
             i |-> 0, rows_written |-> 0]
NoResult == [kind |-> "none", what |-> "", at |-> "", n |-> 0]
\* no sync has returned since the sources last changed
NoRun == [ran |-> FALSE, since |-> 0, n |-> 0]
NoQuery == [tag |-> NULL, since |-> NoTime, limit |-> 0]

\* "if not events": the empty list, the empty dict, the empty string
Falsy(v) ==
    \/ v.kind = "array" /\ v.items = <<>>
    \/ v.kind = "object" /\ v.member = ""
    \/ v.kind = "string" /\ v.text = <<>>

\* rows the candidates of a parsed reply would add to the table
Candidates(res) ==
    IF res.status = "ok" /\ res.val.kind = "array" THEN Len(res.val.items) ELSE 0

(***************************************************************************)
(* Initial state: no command running, an empty store                       *)
(***************************************************************************)
IdleBack == [at |-> "idle", block |-> NoBlock]

Init ==
    /\ events = <<>> /\ clock = 0 /\ events0 = <<>>
    /\ pc = "idle" /\ rows = <<>> /\ qargs = NoQuery /\ hist = <<>>
    /\ stop = FALSE /\ wpc = "none" /\ cbpc = IdleBack
    /\ delivered = 0 /\ chunks = <<>> /\ holder = NULL
    /\ transcript = NULL /\ parsed = NotParsed /\ idx = 0
    /\ tmpfile = NoFile
    /\ reply = <<>> /\ outcome = NotParsed
    /\ tstr = <<>> /\ tsecs = NotConverted
    /\ gsum = [state |-> "missing", rows |-> {}]
    /\ gmain = [state |-> "missing", rows |-> {}]
    /\ garmin_daily = {} /\ txn = {} /\ daily0 = {} /\ lastrun = NoRun
    /\ spc = "idle" /\ slocals = NoLocals /\ sresult = NoResult

(***************************************************************************)
(* cli.py: log, symptom, list, today; and a direct call of insert_event    *)
(***************************************************************************)
\* the command ran to its end and left the table as `table`
Stored(table) ==
    /\ events' = table /\ events0' = table
    /\ UNCHANGED <<clock, pc, rows, qargs, hist, captureVars, voiceVars, parseVars, srcVars, syncVars>>

\* hm log TAG VALUE: click.Choice(TAGS) admits only a tag of TAGS
Log(tag) ==
    /\ pc = "idle" /\ Len(events) < MaxEvents
    /\ tag \in TAGS
    /\ Stored(insert_event(events, clock, tag, NULL, "avocado", NULL, "cli", NoTime).table)

\* hm symptom SYMPTOM SCORE
Symptom(score) ==
    /\ pc = "idle" /\ Len(events) < MaxEvents
    /\ Stored(insert_event(events, clock, "symptom", "face_redness", score, NULL,
                           "cli", NoTime).table)

\* insert_event called by a collaborator with arguments of its own
InsertEvent(tag, timestamp) ==
    /\ pc = "idle" /\ Len(events) < MaxEvents
    /\ LET r == insert_event(events, clock, tag, NULL, "soup", NULL, "cli", timestamp)
       IN  Stored(r.table)

\* hm list [--tag T] [--today] [--limit N]; hm today is list --today --limit 200
ListEvents(tag, since, limit) ==
    /\ pc = "idle"
    /\ \E r \in query_events(events, tag, since, limit) : rows' = r
    /\ qargs' = [tag |-> tag, since |-> since, limit |-> limit]
    /\ pc' = "listed"
    /\ UNCHANGED <<storeVars, events0, hist, captureVars, voiceVars, parseVars, srcVars, syncVars>>

Tick ==
    /\ pc \in {"idle", "inserting"} /\ spc = "idle" /\ clock < MaxClock
    /\ clock' = clock + 1
    /\ UNCHANGED <<events, cmdVars, captureVars, voiceVars, parseVars, srcVars, syncVars>>

\* the process of the command ends; its locals are gone
RunEnd ==
    /\ pc \in {"listed", "done", "crashed"}
    /\ pc' = "idle" /\ rows' = <<>> /\ qargs' = NoQuery /\ hist' = <<>>
    /\ stop' = FALSE /\ wpc' = "none" /\ cbpc' = IdleBack
    /\ delivered' = 0 /\ chunks' = <<>> /\ holder' = NULL
    /\ transcript' = NULL /\ parsed' = NotParsed /\ idx' = 0
    /\ events0' = events
    /\ UNCHANGED <<storeVars, tmpfile, parseVars, srcVars, syncVars>>


(***************************************************************************)
(* cli.voice: the controlling thread, up to the transcript                 *)
(***************************************************************************)
\* hm voice [--text T]: "if text:" skips the recording
VoiceStart(text) ==
    /\ pc = "idle"
    /\ events0' = events
    /\ IF text \notin {NULL, ""}
       THEN /\ transcript' = text
            /\ pc' = "heard"
            /\ UNCHANGED <<stop, wpc>>
       ELSE /\ stop' = FALSE
            /\ wpc' = "start"
            /\ pc' = "input"
            /\ UNCHANGED transcript
    /\ UNCHANGED <<storeVars, rows, qargs, hist, cbpc, delivered, chunks, tmpfile,
                   holder, parsed, idx, parseVars, srcVars, syncVars>>

\* input() returns; stop.set()
PressEnter ==
    /\ pc = "input"
    /\ stop' = TRUE
    /\ pc' = "join"
    /\ UNCHANGED <<storeVars, rows, qargs, events0, hist, wpc, cbpc, delivered,
                   chunks, tmpfile, holder, voiceVars, parseVars, srcVars, syncVars>>

\* rec_thread.join() returns once the worker has terminated
JoinReturns == wpc \in {"done", "crashed"}

\* rec_thread.join(); audio_path = audio_holder["path"] (KeyError when the
\* worker died before it stored the path)
Join ==
    /\ pc = "join"
    /\ JoinReturns
    /\ pc' = IF holder = NULL THEN "crashed" ELSE "transcribe"
    /\ UNCHANGED <<storeVars, rows, qargs, events0, hist, captureVars, voiceVars,
                   parseVars, srcVars, syncVars>>

\* TranscribeBegin not waiting for the text: voice() goes on to the extraction
\* while the transcription runs
TranscribeBegin_NotAwaited ==
    /\ pc = "transcribe"
    /\ pc' = "heard"
    /\ transcript' = "speech"
    /\ hist' = Append(hist, "transcribe_start")
    /\ UNCHANGED <<storeVars, rows, qargs, events0, captureVars, parsed, idx, parseVars, srcVars, syncVars>>

\* transcribe(audio_path, language=lang) is called
TranscribeBegin ==
    /\ pc = "transcribe"
    /\ pc' = "transcribing"
    /\ hist' = Append(hist, "transcribe_start")
    /\ UNCHANGED <<storeVars, rows, qargs, events0, captureVars, voiceVars, parseVars, srcVars, syncVars>>

\* Cleanup with the unlink after the call instead of in a finally clause
Cleanup_OnSuccess(f, out) == IF out = "error" THEN f ELSE NoFile

\* try: transcribe(...) finally: audio_path.unlink(missing_ok=True): the file
\* once transcribe has returned or raised (out)
Cleanup(f, out) == NoFile

\* transcribe returns text ("" when nothing was said) or raises; the finally
\* clause runs either way
\* AfterTranscript without the check of the transcript
AfterTranscript_Unchecked(out) == "heard"

\* "if not transcript: return": where voice() goes with the transcript
AfterTranscript(out) == IF out = "" THEN "done" ELSE "heard"

TranscribeEnd(out) ==
    /\ pc = "transcribing"
    /\ tmpfile' = Cleanup(tmpfile, out)
    /\ hist' = Append(hist, "transcribe_end")
    /\ IF out = "error"
       THEN pc' = "crashed" /\ UNCHANGED transcript
       ELSE /\ transcript' = out
            /\ pc' = AfterTranscript(out)
    /\ UNCHANGED <<storeVars, rows, qargs, events0, stop, wpc, cbpc, delivered,
                   chunks, holder, parsed, idx, parseVars, srcVars, syncVars>>

(***************************************************************************)
(* voice.record_audio on the worker thread, and the stream's callback      *)
(***************************************************************************)
\* sd.InputStream(...) opens, or raises and the thread dies
WorkerOpen(ok) ==
    /\ wpc = "start"
    /\ wpc' = IF ok THEN "waiting" ELSE "crashed"
    /\ hist' = IF ok THEN hist ELSE Append(hist, "capture_end")
    /\ UNCHANGED <<storeVars, pc, rows, qargs, events0, stop, cbpc, delivered,
                   chunks, tmpfile, holder, voiceVars, parseVars, srcVars, syncVars>>

\* stop_event.wait() returns
WorkerWake ==
    /\ wpc = "waiting" /\ stop
    /\ wpc' = "closing"
    /\ UNCHANGED <<storeVars, cmdVars, stop, cbpc, delivered, chunks, tmpfile,
                   holder, voiceVars, parseVars, srcVars, syncVars>>

\* the with block exits: the stream stops once no callback is running
WorkerClose ==
    /\ wpc = "closing" /\ cbpc.at = "idle"
    /\ wpc' = "closed"
    /\ UNCHANGED <<storeVars, cmdVars, stop, cbpc, delivered, chunks, tmpfile,
                   holder, voiceVars, parseVars, srcVars, syncVars>>

\* audio = ...; tmp = mktemp; sf.write(tmp, audio, sample_rate)
WorkerWrite ==
    /\ wpc = "closed"
    /\ tmpfile' = Audio(chunks)
    /\ wpc' = "written"
    /\ UNCHANGED <<storeVars, cmdVars, stop, cbpc, delivered, chunks, holder,
                   voiceVars, parseVars, srcVars, syncVars>>

\* record_audio returns (its locals are gone); audio_holder["path"] = ...;
\* the thread ends
WorkerReturn ==
    /\ wpc = "written"
    /\ holder' = "path"
    /\ wpc' = "done"
    /\ chunks' = <<>> /\ delivered' = 0
    /\ hist' = Append(hist, "capture_end")
    /\ UNCHANGED <<storeVars, pc, rows, qargs, events0, stop, cbpc, tmpfile,
                   voiceVars, parseVars, srcVars, syncVars>>

\* the callback without its check of the stop signal
CbEnter_Unchecked ==
    /\ wpc \in {"waiting", "closing"} /\ cbpc.at = "idle"
    /\ delivered < MaxFrames
    /\ delivered' = delivered + 1
    /\ cbpc' = [at |-> "checked",
                block |-> [no |-> delivered + 1, frames |-> BlockFrames, late |-> stop]]
    /\ UNCHANGED <<storeVars, cmdVars, stop, wpc, chunks, tmpfile, holder,
                   voiceVars, parseVars, srcVars, syncVars>>

\* the stream calls callback(indata, ...): "if not stop_event.is_set()"
CbEnter ==
    /\ wpc \in {"waiting", "closing"} /\ cbpc.at = "idle"
    /\ delivered < MaxFrames
    /\ delivered' = delivered + 1
    /\ cbpc' = IF stop THEN cbpc
               ELSE [at |-> "checked",
                     block |-> [no |-> delivered + 1, frames |-> BlockFrames,
                                late |-> stop]]
    /\ UNCHANGED <<storeVars, cmdVars, stop, wpc, chunks, tmpfile, holder,
                   voiceVars, parseVars, srcVars, syncVars>>

\* chunks.append(indata.copy())
CbAppend ==
    /\ cbpc.at = "checked"
    /\ chunks' = Append(chunks, cbpc.block)
    /\ cbpc' = IdleBack
    /\ UNCHANGED <<storeVars, cmdVars, stop, wpc, delivered, tmpfile, holder,
                   voiceVars, parseVars, srcVars, syncVars>>


(***************************************************************************)
(* cli.voice: extraction, preview, confirmation, insertion                 *)
(***************************************************************************)
\* parse_events(transcript) is called: the request goes out
ExtractBegin ==
    /\ pc = "heard"
    /\ pc' = "extracting"
    /\ hist' = Append(hist, "extract_start")
    /\ UNCHANGED <<storeVars, rows, qargs, events0, captureVars, voiceVars, parseVars, srcVars, syncVars>>

\* where voice() goes with what parse_events returned or raised:
\* "except Exception: return", "if not events: return"
AfterParse(res) ==
    IF res.status # "ok" \/ Falsy(res.val) THEN "done" ELSE "preview"

\* the call fails (no key, no network), or a reply arrives and is parsed
ExtractEnd(api_ok, text) ==
    /\ pc = "extracting"
    /\ LET res == IF api_ok THEN parse_events(text)
                  ELSE [status |-> "APIError", val |-> JNone]
       IN  /\ Len(events) + Candidates(res) <= MaxEvents
           /\ parsed' = res
           /\ pc' = AfterParse(res)
    /\ hist' = Append(hist, "extract_end")
    /\ UNCHANGED <<storeVars, rows, qargs, events0, captureVars, transcript, idx,
                   parseVars, srcVars, syncVars>>

\* the preview table: ev.get(...) of every element of enumerate(events, 1)
\* raises unless events is a list of objects
Previewable(v) ==
    v.kind = "array" /\ \A i \in 1..Len(v.items) : v.items[i].kind = "object"

Preview ==
    /\ pc = "preview"
    /\ pc' = IF Previewable(parsed.val) THEN "confirm" ELSE "crashed"
    /\ UNCHANGED <<storeVars, rows, qargs, events0, hist, captureVars, voiceVars,
                   parseVars, srcVars, syncVars>>

\* click.confirm("Log these events?")
Confirm(yes) ==
    /\ pc = "confirm"
    /\ pc' = IF yes THEN "inserting" ELSE "done"
    /\ idx' = IF yes THEN 1 ELSE idx
    /\ UNCHANGED <<storeVars, rows, qargs, events0, hist, captureVars, transcript,
                   parsed, parseVars, srcVars, syncVars>>

\* one turn of "for ev in events: insert_event(tag=ev.get("tag", "other"), ...)"
InsertNext ==
    /\ pc = "inserting"
    /\ IF idx > Len(parsed.val.items)
       THEN /\ pc' = "done"
            /\ UNCHANGED <<events, idx, hist>>
       ELSE LET m == parsed.val.items[idx].member
                r == insert_event(events, clock, MemberTag(m), MemberCategory(m),
                                  MemberValue(m), NULL, "voice", NoTime)
            IN  /\ events' = r.table
                /\ pc' = IF r.status = "ok" THEN "inserting" ELSE "crashed"
                /\ idx' = IF r.status = "ok" THEN idx + 1 ELSE idx
                /\ hist' = IF r.status = "ok" THEN Append(hist, "insert") ELSE hist
    /\ UNCHANGED <<clock, rows, qargs, events0, captureVars, transcript, parsed,
                   parseVars, srcVars, syncVars>>

(***************************************************************************)
(* The voice command over one store                                        *)
(***************************************************************************)
Next ==
    \/ Tick
    \/ RunEnd
    \/ \E tx \in {NULL, "", "speech"} : VoiceStart(tx)
    \/ PressEnter
    \/ Join
    \/ TranscribeBegin
    \/ \E out \in {"speech", "", "error"} : TranscribeEnd(out)
    \/ \E ok \in BOOLEAN : WorkerOpen(ok)
    \/ WorkerWake
    \/ WorkerClose
    \/ WorkerWrite
    \/ WorkerReturn
    \/ CbEnter
    \/ CbAppend
    \/ \E a \in BOOLEAN, tx \in VoiceReplies : ExtractEnd(a, tx)
    \/ ExtractBegin
    \/ Preview
    \/ \E y \in BOOLEAN : Confirm(y)
    \/ InsertNext

Spec == Init /\ [][Next]_vars


(***************************************************************************)
(* The commands of cli.py and direct calls of db.py over one store         *)
(***************************************************************************)
NextStore ==
    \/ \E t \in {"food", "mood"} : Log(t)
    \/ \E sc \in {"7"} : Symptom(sc)
    \/ \E t \in CallerTags, ts \in {NoTime} \cup 0..MaxClock : InsertEvent(t, ts)
    \/ \E t \in {NULL, "food", ""}, si \in {NoTime} \cup 0..MaxClock, l \in {-1, 1, 20} :
          ListEvents(t, si, l)
    \/ Tick
    \/ RunEnd

SpecStore == Init /\ [][NextStore]_vars

(***************************************************************************)
(* voice.parse_events as a pure function of the reply text                 *)
(***************************************************************************)
ReplyBodies ==
    {<<>>, <<" ">>, <<"[", "]">>, <<"[", "{", "f", "}", "]">>, ReplyTwoFoods,
     <<"[", "\n", "{", "m", "}", "\n", "]">>, <<"[", "{", "x", "}", "]">>,
     <<"{", "f", "}">>, <<"{", "}">>, <<"7">>, <<"[", "7", "]">>, <<"p">>,
     <<"[", "{", "f", "}">>, <<"[", "]", " ", "p">>, <<"[", "{", "f", "}", ",", "]">>,
     <<"[", "q", "a", "q", "]">>, <<"[", "q", "a", "L", "a", "q", "]">>,
     <<"[", "q", "a", "\n", "a", "q", "]">>, <<"q", "q">>}

\* the ways a reply may wrap its body: bare; fenced; fenced with a language
\* tag; fenced and never closed; fenced on one line; padded with whitespace;
\* fenced with prose after the closing fence
Wrap(k, b) ==
    CASE k = 1 -> b
      [] k = 2 -> FENCE \o <<"\n">> \o b \o <<"\n">> \o FENCE
      [] k = 3 -> FENCE \o <<"p", "\n">> \o b \o <<"\n">> \o FENCE
      [] k = 4 -> FENCE \o <<"\n">> \o b
      [] k = 5 -> FENCE \o b \o FENCE
      [] k = 6 -> <<" ", "\n">> \o b \o <<"\n">>
      [] OTHER -> FENCE \o <<"\n">> \o b \o <<"\n">> \o FENCE \o <<"\n", "p">>

Replies == {Wrap(k, b) : k \in 1..7, b \in ReplyBodies}

InitParse ==
    /\ events = <<>> /\ clock = 0 /\ events0 = <<>>
    /\ pc = "idle" /\ rows = <<>> /\ qargs = NoQuery /\ hist = <<>>
    /\ stop = FALSE /\ wpc = "none" /\ cbpc = IdleBack
    /\ delivered = 0 /\ chunks = <<>> /\ holder = NULL
    /\ transcript = NULL /\ parsed = NotParsed /\ idx = 0
    /\ tmpfile = NoFile
    /\ reply \in Replies /\ outcome = NotParsed
    /\ tstr = <<>> /\ tsecs = NotConverted
    /\ gsum = [state |-> "missing", rows |-> {}]
    /\ gmain = [state |-> "missing", rows |-> {}]
    /\ garmin_daily = {} /\ txn = {} /\ daily0 = {} /\ lastrun = NoRun
    /\ spc = "idle" /\ slocals = NoLocals /\ sresult = NoResult

\* parse_events runs on the reply
ParseReply ==
    /\ outcome = NotParsed
    /\ outcome' = parse_events(reply)
    /\ UNCHANGED <<storeVars, cmdVars, captureVars, voiceVars, reply, tstr, tsecs, srcVars,
                   syncVars>>

\* the next call, with another reply
NextReply ==
    /\ outcome # NotParsed
    /\ reply' \in Replies
    /\ outcome' = NotParsed
    /\ UNCHANGED <<storeVars, cmdVars, captureVars, voiceVars, tstr, tsecs, srcVars,
                   syncVars>>

NextParse == ParseReply \/ NextReply

SpecParse == InitParse /\ [][NextParse]_vars

(***************************************************************************)
(* garmin_sync.py: clock-time strings                                      *)
(***************************************************************************)
\* None where a string is expected
NullStr == <<NULL>>

Digits == {"0", "1", "2", "3", "4", "5", "6", "7", "8", "9"}

DigitVal(c) ==
    CASE c = "0" -> 0 [] c = "1" -> 1 [] c = "2" -> 2 [] c = "3" -> 3
      [] c = "4" -> 4 [] c = "5" -> 5 [] c = "6" -> 6 [] c = "7" -> 7
      [] c = "8" -> 8 [] OTHER -> 9

RECURSIVE Num(_)
Num(ds) == IF ds = <<>> THEN 0 ELSE 10 * Num(SubSeq(ds, 1, Len(ds) - 1)) + DigitVal(ds[Len(ds)])

\* int(str): surrounding whitespace and one sign are accepted
IntParse(p) ==
    LET q == Strip(p)
        signed == q # <<>> /\ Head(q) \in {"-", "+"}
        body == IF signed THEN Tail(q) ELSE q
    IN  IF body # <<>> /\ \A i \in 1..Len(body) : body[i] \in Digits
        THEN [ok |-> TRUE, val |-> IF signed /\ Head(q) = "-" THEN 0 - Num(body) ELSE Num(body)]
        ELSE [ok |-> FALSE, val |-> 0]

\* str.split(sep)
RECURSIVE Split(_, _)
Split(s, sep) ==
    IF \E i \in 1..Len(s) : s[i] = sep
    THEN LET i == CHOOSE k \in 1..Len(s) : s[k] = sep /\ \A j \in 1..(k - 1) : s[j] # sep
         IN  <<SubSeq(s, 1, i - 1)>> \o Split(SubSeq(s, i + 1, Len(s)), sep)
    ELSE <<s>>

\* "if not t: return 0"; any exception of the conversion gives 0
_time_str_to_seconds(t) ==
    IF t = NullStr \/ t = <<>> THEN 0
    ELSE LET parts == Split(Split(t, ".")[1], ":")
         IN  IF Len(parts) < 3 THEN 0
             ELSE LET h == IntParse(parts[1])
                      m == IntParse(parts[2])
                      sec == IntParse(parts[3])
                  IN  IF h.ok /\ m.ok /\ sec.ok
                      THEN h.val * 3600 + m.val * 60 + sec.val
                      ELSE 0

\* the components a clock-time string is put together from
Hours == {<<"0">>, <<"0", "1">>, <<"7">>, <<"-", "1">>, <<"x">>, <<>>, <<" ", "1">>}
Minutes == {<<"3", "0">>, <<"5">>, <<"a", "b">>}
Seconds == {<<"0", "0">>, <<"4", "5">>}
Fractions == {<<>>, <<".", "5">>}

\* strings of three components, with and without a fraction, and strings
\* with two or four components, no colon, a fraction in the hour; and None
TimeStrings ==
    {h \o <<":">> \o m \o <<":">> \o sec \o f :
        h \in Hours, m \in Minutes, sec \in Seconds, f \in Fractions}
    \cup {NullStr, <<>>, <<" ">>, <<"0", "1", ":", "3", "0">>, <<"5", "4", "0", "0">>,
          <<"1", ":", "3", "0", ":", "0", "0", ":", "0", "0">>,
          <<"1", ".", "5", ":", "3", "0", ":", "0", "0">>, <<":", ":">>}

InitTime ==
    /\ events = <<>> /\ clock = 0 /\ events0 = <<>>
    /\ pc = "idle" /\ rows = <<>> /\ qargs = NoQuery /\ hist = <<>>
    /\ stop = FALSE /\ wpc = "none" /\ cbpc = IdleBack
    /\ delivered = 0 /\ chunks = <<>> /\ holder = NULL
    /\ transcript = NULL /\ parsed = NotParsed /\ idx = 0
    /\ tmpfile = NoFile
    /\ reply = <<>> /\ outcome = NotParsed
    /\ tstr \in TimeStrings /\ tsecs = NotConverted
    /\ gsum = [state |-> "missing", rows |-> {}]
    /\ gmain = [state |-> "missing", rows |-> {}]
    /\ garmin_daily = {} /\ txn = {} /\ daily0 = {} /\ lastrun = NoRun
    /\ spc = "idle" /\ slocals = NoLocals /\ sresult = NoResult

\* _time_str_to_seconds runs on the string
Convert ==
    /\ ~tsecs.done
    /\ tsecs' = [done |-> TRUE, val |-> _time_str_to_seconds(tstr)]
    /\ UNCHANGED <<storeVars, cmdVars, captureVars, voiceVars, reply, outcome, tstr,
                   srcVars, syncVars>>

\* the next call, with another string
NextString ==
    /\ tsecs.done
    /\ tstr' \in TimeStrings
    /\ tsecs' = NotConverted
    /\ UNCHANGED <<storeVars, cmdVars, captureVars, voiceVars, reply, outcome,
                   srcVars, syncVars>>

NextTime == Convert \/ NextString

SpecTime == InitTime /\ [][NextTime]_vars

(***************************************************************************)
(* The GarminDB sources                                                    *)
(***************************************************************************)
Days == 1..MaxDay
\* date.today()
today == MaxDay

\* rows GarminDB may hold for a day: one with every field and, while the day
\* is still running, one with nulls and a malformed clock time
SummaryA(d) ==
    [day |-> d, steps |-> "9000", rhr_avg |-> "55", hr_avg |-> "70",
     stress_avg |-> "30", sleep_avg |-> <<"0", "7", ":", "3", "0", ":", "0", "0">>,
     rem_sleep_avg |-> <<"0", "1", ":", "3", "0", ":", "0", "0">>, calories_active_avg |-> "400"]
SummaryB(d) ==
    [day |-> d, steps |-> NULL, rhr_avg |-> "60", hr_avg |-> NULL,
     stress_avg |-> "45", sleep_avg |-> NullStr,
     rem_sleep_avg |-> <<"7", ":", "3", "0">>, calories_active_avg |-> NULL]
SleepRow(d) == [day |-> d, total_sleep |-> <<"0", "6", ":", "1", "5", ":", "0", "0", ".", "5">>, rem_sleep |-> NullStr]

\* tables with at most one row per day (day is the key of both tables)
Keyed(rs) == \A a, b \in rs : a.day = b.day => a = b
SummaryTables ==
    {t \in SUBSET ({SummaryA(d) : d \in Days} \cup {SummaryB(today)}) : Keyed(t)}
\* garmin.db holds the sleep detail of the last two nights at most
SleepTables == SUBSET {SleepRow(d) : d \in {e \in Days : e >= today - 1}}

GsumStates ==
    {[state |-> "missing", rows |-> {}]} \cup {[state |-> "ok", rows |-> t] : t \in SummaryTables}
GmainStates ==
    {[state |-> "missing", rows |-> {}], [state |-> "unreadable", rows |-> {}]}
        \cup {[state |-> "ok", rows |-> t] : t \in SleepTables}

(***************************************************************************)
(* garmin_sync.sync                                                        *)
(***************************************************************************)
\* sync raised e while reading the summary, reading the sleep detail or writing
Raised(e, where) == [kind |-> "raise", what |-> e, at |-> where, n |-> 0]
Returned(k) == [kind |-> "return", what |-> "", at |-> "", n |-> k]

\* _garmin_conn without the check of the path: sqlite3.connect creates the file
_garmin_conn_Unchecked(db) == "ok"

\* _garmin_conn(path): FileNotFoundError when the file does not exist
_garmin_conn(db) == IF db.state = "missing" THEN "FileNotFoundError" ELSE "ok"

\* Upsert that keeps a stored value where the new row holds NULL
Upsert_Coalesce(table, new) ==
    IF \E r \in table : r.day = new.day
    THEN {IF r.day = new.day
          THEN [r EXCEPT !.steps = IF new.steps = NULL THEN @ ELSE new.steps,
                         !.rhr_avg = new.rhr_avg,
                         !.hr_avg = IF new.hr_avg = NULL THEN @ ELSE new.hr_avg,
                         !.stress_avg = new.stress_avg,
                         !.sleep_total_sec = new.sleep_total_sec,
                         !.sleep_rem_sec = new.sleep_rem_sec,
                         !.calories_active = new.calories_active,
                         !.synced_at = new.synced_at]
          ELSE r : r \in table}
    ELSE table \cup {new}

\* ORDER BY day
RECURSIVE SortByDay(_)
SortByDay(rs) ==
    IF rs = {} THEN <<>>
    ELSE LET m == CHOOSE r \in rs : \A q \in rs : r.day <= q.day
         IN  <<m>> \o SortByDay(rs \ {m})

\* Merge that falls back to the summary averages when a detail field parses to 0
Merge_FallbackOnZero(row, sleep_by_day, now) ==
    LET detail == {x \in sleep_by_day : x.day = row.day}
        sl == CHOOSE x \in detail : TRUE
    IN  [day |-> row.day, steps |-> row.steps, rhr_avg |-> row.rhr_avg,
         hr_avg |-> row.hr_avg, stress_avg |-> row.stress_avg,
         sleep_total_sec |->
            IF detail # {} /\ _time_str_to_seconds(sl.total_sleep) # 0
            THEN _time_str_to_seconds(sl.total_sleep)
            ELSE _time_str_to_seconds(row.sleep_avg),
         sleep_rem_sec |->
            IF detail # {} /\ _time_str_to_seconds(sl.rem_sleep) # 0
            THEN _time_str_to_seconds(sl.rem_sleep)
            ELSE _time_str_to_seconds(row.rem_sleep_avg),
         calories_active |-> row.calories_active_avg,
         synced_at |-> now]

\* the row sync builds for one day of the summary (lines 124-160)
Merge(row, sleep_by_day, now) ==
    LET detail == {x \in sleep_by_day : x.day = row.day}
        sl == CHOOSE x \in detail : TRUE
    IN  [day |-> row.day, steps |-> row.steps, rhr_avg |-> row.rhr_avg,
         hr_avg |-> row.hr_avg, stress_avg |-> row.stress_avg,
         sleep_total_sec |-> IF detail # {} THEN _time_str_to_seconds(sl.total_sleep)
                             ELSE _time_str_to_seconds(row.sleep_avg),
         sleep_rem_sec |-> IF detail # {} THEN _time_str_to_seconds(sl.rem_sleep)
                           ELSE _time_str_to_seconds(row.rem_sleep_avg),
         calories_active |-> row.calories_active_avg,
         synced_at |-> now]

\* Upsert whose DO UPDATE adds the new sleep time to the stored one
Upsert_Accumulate(table, new) ==
    IF \E r \in table : r.day = new.day
    THEN {IF r.day = new.day
          THEN [new EXCEPT !.sleep_total_sec = r.sleep_total_sec + new.sleep_total_sec]
          ELSE r : r \in table}
    ELSE table \cup {new}

\* Upsert whose DO UPDATE leaves synced_at out
Upsert_KeepSyncedAt(table, new) ==
    IF \E r \in table : r.day = new.day
    THEN {IF r.day = new.day THEN [new EXCEPT !.synced_at = r.synced_at] ELSE r :
             r \in table}
    ELSE table \cup {new}

\* INSERT INTO garmin_daily ... ON CONFLICT(day) DO UPDATE SET every other
\* column = excluded.column
Upsert(table, new) ==
    IF \E r \in table : r.day = new.day
    THEN {IF r.day = new.day
          THEN [r EXCEPT !.steps = new.steps, !.rhr_avg = new.rhr_avg,
                         !.hr_avg = new.hr_avg, !.stress_avg = new.stress_avg,
                         !.sleep_total_sec = new.sleep_total_sec,
                         !.sleep_rem_sec = new.sleep_rem_sec,
                         !.calories_active = new.calories_active,
                         !.synced_at = new.synced_at]
          ELSE r : r \in table}
    ELSE table \cup {new}

\* the rows of two tables differ in one day at most
OneDayApart(a, b) == \E d \in Days : {r \in a : r.day # d} = {r \in b : r.day # d}

\* GarminDB downloads and imports between two syncs: garmin_summary.db
\* appears, goes away, or gets the summary of one day written
ImportSummary(s) ==
    /\ spc = "idle" /\ pc = "idle"
    /\ s # gsum
    /\ s.state = "ok" /\ gsum.state = "ok" => OneDayApart(s.rows, gsum.rows)
    /\ ~(s.state = "ok" /\ gsum.state = "ok") => s.rows = {} /\ gsum.rows = {}
    /\ gsum' = s
    /\ lastrun' = NoRun
    /\ UNCHANGED <<storeVars, cmdVars, captureVars, voiceVars, parseVars, gmain,
                   garmin_daily, txn, spc, slocals, sresult, daily0>>

\* the same for garmin.db and its sleep table
ImportSleep(m) ==
    /\ spc = "idle" /\ pc = "idle"
    /\ m # gmain
    /\ m.state = "ok" /\ gmain.state = "ok" => OneDayApart(m.rows, gmain.rows)
    /\ ~(m.state = "ok" /\ gmain.state = "ok") => m.rows = {} /\ gmain.rows = {}
    /\ gmain' = m
    /\ lastrun' = NoRun
    /\ UNCHANGED <<storeVars, cmdVars, captureVars, voiceVars, parseVars, gsum,
                   garmin_daily, txn, spc, slocals, sresult, daily0>>

\* SELECT ... FROM days_summary without its WHERE clause
SelectSummary_NoWindow(summary, since) == SortByDay(summary)

\* SELECT ... FROM days_summary WHERE day >= since ORDER BY day
SelectSummary(summary, since) == SortByDay({r \in summary : r.day >= since})

\* sync(days) up to "if not summary_rows: return 0"
SyncReadSummary(days) ==
    /\ spc = "idle" /\ pc = "idle"
    /\ daily0' = garmin_daily
    /\ LET since == today - days
           found == SelectSummary(gsum.rows, since)
       IN  IF _garmin_conn(gsum) # "ok"
           THEN spc' = "failed" /\ sresult' = Raised(_garmin_conn(gsum), "summary")
                /\ UNCHANGED slocals
           ELSE IF found = <<>>
           THEN /\ spc' = "returned" /\ sresult' = Returned(0)
                /\ slocals' = [NoLocals EXCEPT !.since = since, !.now = clock]
           ELSE /\ spc' = "sleep"
                /\ slocals' = [NoLocals EXCEPT !.since = since, !.now = clock,
                                               !.summary_rows = found]
                /\ UNCHANGED sresult
    /\ UNCHANGED <<storeVars, cmdVars, captureVars, voiceVars, parseVars, srcVars,
                   garmin_daily, txn, lastrun>>

\* the sleep detail of garmin.db: "except FileNotFoundError: pass"; any other
\* exception of the read leaves sync
SyncReadSleep ==
    /\ spc = "sleep"
    /\ IF gmain.state = "unreadable"
       THEN spc' = "failed" /\ sresult' = Raised("OperationalError", "sleep")
            /\ UNCHANGED slocals
       ELSE /\ spc' = "upsert"
            /\ slocals' = [slocals EXCEPT
                  !.sleep_by_day = IF _garmin_conn(gmain) = "FileNotFoundError" THEN {}
                                   ELSE {x \in gmain.rows : x.day >= slocals.since},
                  !.i = 1]
            /\ UNCHANGED sresult
    /\ UNCHANGED <<storeVars, cmdVars, captureVars, voiceVars, parseVars, srcVars,
                   garmin_daily, txn, daily0, lastrun>>

\* one turn of "for row in summary_rows": the upsert, inside the transaction
SyncUpsert ==
    /\ spc = "upsert" /\ slocals.i <= Len(slocals.summary_rows)
    /\ txn' = Upsert(txn, Merge(slocals.summary_rows[slocals.i],
                                slocals.sleep_by_day, slocals.now))
    /\ slocals' = [slocals EXCEPT !.i = @ + 1, !.rows_written = @ + 1]
    /\ UNCHANGED <<storeVars, cmdVars, captureVars, voiceVars, parseVars, srcVars,
                   garmin_daily, spc, sresult, daily0, lastrun>>

\* the loop on a connection that commits each statement as it is executed
SyncWriteFails_Autocommit ==
    /\ spc = "upsert"
    /\ garmin_daily' = txn
    /\ spc' = "failed"
    /\ sresult' = Raised("OperationalError", "write")
    /\ UNCHANGED <<storeVars, cmdVars, captureVars, voiceVars, parseVars, srcVars,
                   txn, slocals, daily0, lastrun>>

\* an exception inside "with _health_conn() as hdst": the connection rolls back
SyncWriteFails ==
    /\ spc = "upsert"
    /\ txn' = garmin_daily
    /\ spc' = "failed"
    /\ sresult' = Raised("OperationalError", "write")
    /\ UNCHANGED <<storeVars, cmdVars, captureVars, voiceVars, parseVars, srcVars,
                   garmin_daily, slocals, daily0, lastrun>>

\* the with block exits: commit; return rows_written
SyncCommit ==
    /\ spc = "upsert" /\ slocals.i > Len(slocals.summary_rows)
    /\ garmin_daily' = txn
    /\ spc' = "returned"
    /\ sresult' = Returned(slocals.rows_written)
    /\ UNCHANGED <<storeVars, cmdVars, captureVars, voiceVars, parseVars, srcVars,
                   txn, slocals, daily0, lastrun>>

\* the process of the script ends
SyncEnd ==
    /\ spc \in {"returned", "failed"}
    /\ spc' = "idle" /\ slocals' = NoLocals /\ sresult' = NoResult
    /\ daily0' = garmin_daily
    /\ lastrun' = IF spc = "returned"
                  THEN [ran |-> TRUE, since |-> slocals.since, n |-> sresult.n]
                  ELSE NoRun
    /\ UNCHANGED <<storeVars, cmdVars, captureVars, voiceVars, parseVars, srcVars,
                   garmin_daily, txn>>

\* sync windows: --days 0 (today only) and the default of 30
Windows == {0, 30}

NextSync ==
    \/ \E s \in GsumStates : ImportSummary(s)
    \/ \E m \in GmainStates : ImportSleep(m)
    \/ \E d \in Windows : SyncReadSummary(d)
    \/ SyncReadSleep
    \/ SyncUpsert
    \/ SyncWriteFails
    \/ SyncCommit
    \/ SyncEnd
    \/ Tick

SpecSync == Init /\ [][NextSync]_vars

(***************************************************************************)
(* The voice command with its threads scheduled                            *)
(***************************************************************************)
\* The worker thread and the stream's callback thread are running threads:
\* a step of theirs that stays possible is taken, and so is the return of
\* join() in the controlling thread.  Nothing makes the user press Enter.
Scheduling ==
    /\ WF_vars(\E ok \in BOOLEAN : WorkerOpen(ok))
    /\ WF_vars(WorkerWake)
    /\ WF_vars(WorkerClose)
    /\ WF_vars(WorkerWrite)
    /\ WF_vars(WorkerReturn)
    /\ WF_vars(CbAppend)
    /\ WF_vars(Join)

SpecLive == Init /\ [][Next]_vars /\ Scheduling

(***************************************************************************)
(* The store under its three users: inserts, queries and the sync script   *)
(***************************************************************************)
\* the summary GarminDB holds while the CLI is in use: none, or today's
LogSources ==
    {[state |-> "missing", rows |-> {}], [state |-> "ok", rows |-> {}],
     [state |-> "ok", rows |-> {SummaryA(today)}]}

NextLog ==
    \/ Log("food")
    \/ \E t \in CallerTags, ts \in {NoTime, 0} : InsertEvent(t, ts)
    \/ ListEvents(NULL, NoTime, 20)
    \/ RunEnd
    \/ \E s \in LogSources : ImportSummary(s)
    \/ SyncReadSummary(30)
    \/ SyncReadSleep
    \/ SyncUpsert
    \/ SyncWriteFails
    \/ SyncCommit
    \/ SyncEnd
    \/ Tick

SpecLog == Init /\ [][NextLog]_vars

(***************************************************************************)
(* Claims                                                                  *)
(***************************************************************************)
\* the positions of a stage in the history of the running voice command
Pos(label) == {i \in 1..Len(hist) : hist[i] = label}
\* every occurrence of b has an occurrence of a before it
Precedes(a, b) == \A j \in Pos(b) : \E i \in Pos(a) : i < j

\* C1: after any sequence of inserts (direct or from the voice pipeline) the
\* tag of every stored event is a member of the closed set TAGS, an insert
\* with any other tag having been rejected.
C1_StoredTagsInClosedSet == \A i \in 1..Len(events) : events[i].tag \in TAGS

\* C2: whenever parse_events returns a result instead of failing, the reply
\* with its optional code fence stripped is valid JSON and is an array; an
\* empty, non-JSON or non-array text is never a success.
C2_MalformedNeverSuccess ==
    outcome.status = "ok" =>
        LET j == JsonLoads(StripFence(Strip(reply)))
        IN  j.status = "ok" /\ j.val.kind = "array"

\* C3: when the most recently inserted event has a valid tag T and a
\* timestamp not earlier than that of any stored event, query(tag=T) returns
\* it as its first element, also among events of the same timestamp.
C3_InsertedEventFirst ==
    (/\ pc = "listed" /\ events # <<>>
     /\ qargs.tag \in TAGS /\ qargs.since = NoTime /\ qargs.limit # 0
     /\ events[Len(events)].tag = qargs.tag
     /\ \A i \in 1..Len(events) :
            events[Len(events)].timestamp >= events[i].timestamp)
    => (rows # <<>> /\ rows[1] = events[Len(events)])

\* the rows sync has built so far for the days of its summary
Built(k) == Merge(slocals.summary_rows[k], slocals.sleep_by_day, slocals.now)

\* C4: garmin_daily holds at most one row per day, and once a sync has
\* upserted a day the row of that day equals the row the sync built in every
\* field (synced_at and NULL fields included), whatever the table held before.
C4_UpsertReplacesRow ==
    /\ Keyed(garmin_daily) /\ Keyed(txn)
    /\ spc = "upsert" => \A k \in 1..(slocals.i - 1) : Built(k) \in txn
    /\ spc = "returned" =>
          \A k \in 1..Len(slocals.summary_rows) : Built(k) \in garmin_daily

\* a sync has replaced a row that held values where the new one holds NULL
C4_Witness ==
    /\ spc = "returned"
    /\ \E old \in daily0, new \in garmin_daily :
          /\ old.day = new.day
          /\ old.steps # NULL /\ new.steps = NULL
          /\ old.synced_at # new.synced_at

\* C5: a sync that finds garmin_summary.db missing fails with
\* FileNotFoundError before it has read or written anything: garmin_daily is
\* as it was before the run.
C5_MissingPrimaryZeroWrites ==
    (gsum.state = "missing" /\ spc # "idle") =>
        /\ spc = "failed"
        /\ sresult = Raised("FileNotFoundError", "summary")
        /\ slocals = NoLocals
        /\ garmin_daily = daily0 /\ txn = garmin_daily

\* the failed run of a store that already holds rows
C5_Witness == gsum.state = "missing" /\ spc = "failed" /\ garmin_daily # {}

\* C6: with the sleep detail absent or unreachable a sync still upserts every
\* summary day of the window, taking the sleep fields from the averages of
\* the summary, and no failure to read the sleep detail ends the run.
C6_SecondaryNeverAborts ==
    /\ spc = "failed" => sresult.at # "sleep"
    /\ (gmain.state # "ok" /\ spc = "returned") =>
          \A k \in 1..Len(slocals.summary_rows) :
             \E r \in garmin_daily :
                /\ r.day = slocals.summary_rows[k].day
                /\ r.sleep_total_sec =
                      _time_str_to_seconds(slocals.summary_rows[k].sleep_avg)
                /\ r.sleep_rem_sec =
                      _time_str_to_seconds(slocals.summary_rows[k].rem_sleep_avg)

\* C7: within one voice run the capture has ended (worker terminated, no
\* callback running) before the transcription starts, the transcription has
\* ended before the extraction starts, and the extraction has ended before
\* any insert.
C7_StagesSequential ==
    /\ Precedes("capture_end", "transcribe_start")
    /\ pc = "transcribing" => wpc = "done" /\ cbpc.at = "idle"
    /\ \A j \in Pos("extract_start") :
          Pos("transcribe_start") # {} => \E i \in Pos("transcribe_end") : i < j
    /\ Precedes("extract_start", "extract_end")
    /\ Precedes("extract_end", "insert")
    /\ Len(events) > Len(events0) => "extract_end" \in {hist[i] : i \in 1..Len(hist)}

\* a run that recorded, transcribed, extracted two candidates and stored both
C7_Witness ==
    /\ pc = "done"
    /\ hist = <<"capture_end", "transcribe_start", "transcribe_end",
                "extract_start", "extract_end", "insert", "insert">>

\* C8: when a voice run has ended (normally or by an exception) the temporary
\* audio file no longer exists, whether the transcription returned text,
\* returned nothing or raised.
C8_ArtifactReleased == pc \in {"done", "crashed", "idle"} => ~tmpfile.exists

\* a run that ended by the exception of transcribe, after a recording
C8_Witness ==
    /\ pc = "crashed" /\ holder # NULL
    /\ hist = <<"capture_end", "transcribe_start", "transcribe_end">>

\* C9: the file record_audio writes is never empty: with no block accumulated
\* it holds sample_rate frames (one second) of silence, otherwise exactly the
\* accumulated blocks.
C9_ArtifactNeverEmpty ==
    /\ tmpfile.exists => tmpfile.frames > 0
    /\ wpc = "written" =>
          /\ tmpfile.exists
          /\ chunks = <<>> => tmpfile.blocks = <<>> /\ tmpfile.frames >= sample_rate
          /\ chunks # <<>> =>
                tmpfile.blocks = chunks /\ tmpfile.frames = TotalFrames(chunks)

\* the stop signal fired before any block was delivered
C9_Witness ==
    wpc = "written" /\ delivered = 0 /\ chunks = <<>> /\ tmpfile.frames = sample_rate

\* C10: once the transcription has yielded an empty transcript the run stops:
\* no extraction is started and the events table stays as it was.
C10_EmptyTranscriptStops ==
    transcript = "" =>
        /\ pc = "done"
        /\ Pos("extract_start") = {}
        /\ parsed = NotParsed
        /\ events = events0

\* a run whose transcription returned no text
C10_Witness == transcript = "" /\ pc = "done" /\ "transcribe_end" \in {hist[i] : i \in 1..Len(hist)}

\* C11: for every body J that is JSON text, the reply made of an opening
\* fence line, J and a closing fence line gives the result parse_events gives
\* for J alone: the same value or the same failure.
C11_FencedParsesAlike ==
    \A J \in ReplyBodies :
        (JsonLoads(J).status = "ok" /\ reply = Wrap(2, J) /\ outcome # NotParsed)
            => outcome = parse_events(J)

\* the stored events a query for (tag, since) is to range over
Wanted(tag, since) ==
    {i \in 1..Len(events) :
        /\ (tag # NULL => events[i].tag = tag)
        /\ (since # NoTime => events[i].timestamp >= since)}

\* C12: what a query returned are stored events, each once, that match the
\* tag filter and the minimum timestamp when these are given, newest first,
\* as many as match but at most limit, none of them older than a matching
\* event left out.
C12_QueryReturnsNewestMatching ==
    pc = "listed" =>
        LET W == Wanted(qargs.tag, qargs.since)
            cap == IF qargs.limit < 0 THEN 0 ELSE qargs.limit
        IN  /\ \A k \in 1..Len(rows) : \E i \in W : rows[k] = events[i]
            /\ \A k, l \in 1..Len(rows) : k < l =>
                  /\ rows[k].id # rows[l].id
                  /\ rows[k].timestamp >= rows[l].timestamp
            /\ Len(rows) <= cap
            /\ Len(rows) = cap \/ Len(rows) = Cardinality(W)
            /\ \A i \in W : \A k \in 1..Len(rows) :
                  (\A l \in 1..Len(rows) : rows[l] # events[i])
                      => events[i].timestamp <= rows[k].timestamp

\* a string of digits, one at least
AllDigits(p) == p # <<>> /\ \A i \in 1..Len(p) : p[i] \in Digits

\* H:MM:SS with an optional fraction: three components of digits before the
\* first full stop
WellFormed(t) ==
    /\ t # NullStr
    /\ LET parts == Split(Split(t, ".")[1], ":")
       IN  Len(parts) = 3 /\ \A k \in 1..3 : AllDigits(parts[k])

\* C13: _time_str_to_seconds gives h*3600 + m*60 + s for a well-formed
\* H:MM:SS[.ffffff] string, the fraction ignored, and 0 for None, the empty
\* string and every other string.
C13_ClockTimeParsing ==
    tsecs.done =>
        IF WellFormed(tstr)
        THEN LET parts == Split(Split(tstr, ".")[1], ":")
             IN  tsecs.val = Num(parts[1]) * 3600 + Num(parts[2]) * 60 + Num(parts[3])
        ELSE tsecs.val = 0

\* C14: the events table only grows, by one row at its end per step, every
\* row already stored keeping its place and all of its fields; a listing and
\* every step of a sync leave the table as it is.
C14_AppendOnly ==
    [][/\ \/ events' = events
          \/ /\ Len(events') = Len(events) + 1
             /\ SubSeq(events', 1, Len(events)) = events
       /\ pc' = "listed" => events' = events
       /\ (spc' # spc \/ txn' # txn \/ garmin_daily' # garmin_daily)
             => events' = events]_vars

\* a full table that was listed while a sync wrote a day
C14_Witness ==
    /\ Len(events) = MaxEvents
    /\ pc = "listed" /\ Len(rows) = MaxEvents
    /\ spc = "returned" /\ sresult.n > 0

\* C15: the ids of the stored events are strictly increasing in insertion
\* order, so no two events share an id and an insert never gets an id that an
\* earlier insert got.
C15_IdsIncreasing ==
    /\ \A i, j \in 1..Len(events) : i < j => events[i].id < events[j].id
    /\ \A i \in 1..Len(events) : events[i].id >= 1

\* a later insert with an earlier timestamp
C15_Witness ==
    /\ Len(events) >= 2
    /\ events[Len(events)].timestamp < events[1].timestamp
    /\ events[Len(events)].id > events[1].id

\* C16: what a reader of garmin_daily finds at any point of a sync run is the
\* table of before the run until the run commits, and after it rows that are
\* each a row of before the run or a row this run built, never a row with
\* fields of both.
C16_NoHalfWrittenRow ==
    /\ spc \in {"sleep", "upsert", "failed"} => garmin_daily = daily0
    /\ spc = "returned" =>
          \A r \in garmin_daily :
             r \in daily0 \/ \E k \in 1..Len(slocals.summary_rows) : r = Built(k)

\* inside the loop, a day rewritten in the transaction and not yet committed
C16_Witness ==
    /\ spc = "upsert" /\ slocals.i <= Len(slocals.summary_rows)
    /\ \E old \in garmin_daily, new \in txn : old.day = new.day /\ old # new

\* a table with the time of the sync taken out of its rows
Unstamped(t) == {[r EXCEPT !.synced_at = 0] : r \in t}

\* C17: a sync that follows a sync of the same window, the sources unchanged
\* in between, returns the count the first returned and leaves garmin_daily
\* with the days and the values the first left, synced_at aside.
C17_SyncIdempotent ==
    (spc = "returned" /\ lastrun.ran /\ lastrun.since = slocals.since) =>
        /\ sresult.n = lastrun.n
        /\ Unstamped(garmin_daily) = Unstamped(daily0)

\* the second of two such runs, later than the first, has rewritten a day
C17_Witness ==
    /\ spc = "returned" /\ lastrun.ran /\ lastrun.since = slocals.since
    /\ sresult.n > 0
    /\ \E r \in garmin_daily, o \in daily0 : r.day = o.day /\ r.synced_at > o.synced_at

\* the row garmin_daily holds for a day
DailyRow(d) == CHOOSE r \in garmin_daily : r.day = d

\* C18: in every row a sync wrote, both sleep fields come from the sleep
\* detail when garmin.db holds the day, whatever its fields parse to, and
\* both come from the averages of the summary when it does not.
C18_SleepSourceByPresence ==
    (spc = "returned" /\ sresult.n > 0) =>
        \A k \in 1..Len(slocals.summary_rows) :
           LET row == slocals.summary_rows[k]
               r == DailyRow(row.day)
               detail == {x \in gmain.rows : x.day = row.day}
           IN  /\ \E x \in garmin_daily : x.day = row.day
               /\ IF detail # {}
                  THEN \A x \in detail :
                          /\ r.sleep_total_sec = _time_str_to_seconds(x.total_sleep)
                          /\ r.sleep_rem_sec = _time_str_to_seconds(x.rem_sleep)
                  ELSE /\ r.sleep_total_sec = _time_str_to_seconds(row.sleep_avg)
                       /\ r.sleep_rem_sec = _time_str_to_seconds(row.rem_sleep_avg)

\* a written day whose detail has no REM reading while its summary has one:
\* the row holds 0, not the average
C18_Witness ==
    /\ spc = "returned"
    /\ \E row \in gsum.rows, x \in gmain.rows, r \in garmin_daily :
          /\ row.day = x.day /\ r.day = x.day /\ r.synced_at = slocals.now
          /\ x.rem_sleep = NullStr
          /\ _time_str_to_seconds(row.rem_sleep_avg) # 0
          /\ r.sleep_rem_sec = 0 /\ r.sleep_total_sec # 0

\* the days of the summary inside the window of the running sync
WindowDays == {r.day : r \in {x \in gsum.rows : x.day >= slocals.since}}

\* C19: a sync that returned has written the days of the summary that are
\* not before the cutoff, each stamped with the time of the run, and returned
\* their number; every other row of garmin_daily is as before the run, and
\* with no day in the window the table is unchanged and 0 is returned.
C19_WritesExactlyWindow ==
    spc = "returned" =>
        /\ sresult.n = Cardinality(WindowDays)
        /\ \A d \in WindowDays :
              \E r \in garmin_daily : r.day = d /\ r.synced_at = slocals.now
        /\ {r \in garmin_daily : r.day \notin WindowDays}
              = {r \in daily0 : r.day \notin WindowDays}
        /\ WindowDays = {} => garmin_daily = daily0

\* a sync of today alone: the summary holds an older day, which stays as an
\* earlier run wrote it
C19_Witness ==
    /\ spc = "returned" /\ sresult.n = 1 /\ slocals.since = today
    /\ \E x \in gsum.rows, r \in garmin_daily :
          x.day < today /\ r.day = x.day /\ r \in daily0 /\ r.synced_at < slocals.now

\* C20: in a voice run the events table is as at the start of the run up to
\* the confirmation; it stays so when the extraction failed, when it gave no
\* candidate and when the user declined; and a run whose confirmation was
\* accepted ends with one new event per candidate, each with source "voice".
C20_InsertOnlyAfterConfirmation ==
    /\ pc \in {"input", "join", "transcribing", "heard", "extracting",
               "preview", "confirm"} => events = events0
    /\ (pc \in {"done", "crashed"} /\ idx = 0) => events = events0
    /\ (pc \in {"done", "crashed"} /\ idx >= 1) =>
          /\ Len(events) = Len(events0) + Len(parsed.val.items)
          /\ SubSeq(events, 1, Len(events0)) = events0
          /\ \A i \in (Len(events0) + 1)..Len(events) : events[i].source = "voice"

\* C21: no block that the stream delivered after the stop signal was set is
\* in the buffer, about to be appended to it, or in the written file,
\* however the callback and stop.set() interleave.
C21_NoAppendAfterStop ==
    /\ \A i \in 1..Len(chunks) : ~chunks[i].late
    /\ cbpc.at = "checked" => ~cbpc.block.late
    /\ \A i \in 1..Len(tmpfile.blocks) : ~tmpfile.blocks[i].late

\* a written file that holds a block delivered before the stop signal while
\* a block delivered after it was dropped
C21_Witness ==
    /\ wpc = "written" /\ stop
    /\ Len(tmpfile.blocks) >= 1
    /\ delivered > Len(chunks)

\* C22: the worker never terminates before the stop signal is set; once the
\* controlling thread has set it and waits in join(), the worker terminates,
\* join() returns and the controlling thread holds the path of the file the
\* worker wrote; it never goes on to the transcription without it.
C22_CancellationLive ==
    /\ [](wpc \in {"done", "crashed"} => stop)
    /\ (pc = "join") ~> (pc = "transcribe" /\ wpc = "done" /\ holder # NULL)
    /\ [](pc \in {"transcribe", "transcribing"} => (wpc = "done" /\ holder # NULL))

\* C23: a run that failed inside the upsert loop has left nothing behind:
\* garmin_daily, and the connection's view of it after the rollback, equal the
\* table before the run; a run that returned has made every row it built
\* visible, and what it committed is the whole of its transaction.
C23_RunAllOrNothing ==
    /\ (spc = "failed" /\ sresult.at = "write") =>
          (garmin_daily = daily0 /\ txn = daily0)
    /\ (spc = "returned" /\ sresult.n > 0) =>
          /\ garmin_daily = txn
          /\ \A k \in 1..Len(slocals.summary_rows) : Built(k) \in garmin_daily

\* a run that failed after it had upserted a day the table does not hold
C23_Witness ==
    /\ spc = "failed" /\ sresult.at = "write"
    /\ slocals.i > 1 /\ slocals.i <= Len(slocals.summary_rows)
    /\ \E k \in 1..(slocals.i - 1) : Built(k) \notin garmin_daily

=============================================================================
